---- MODULE Spec2Model ----
(***************************************************************************)
(* Model of gogdb/updater/indexdb.py: the rebuild of the SQLite index      *)
(* (tables products, changelog, changelog_summary) from the primary store. *)
(*                                                                         *)
(* The connection is opened with isolation_level=None, so every statement  *)
(* outside an explicit BEGIN ... END bracket is committed on its own, and  *)
(* the statements inside the bracket change only the connection's          *)
(* uncommitted view until END TRANSACTION makes them durable.  A run that  *)
(* raises leaves index_main without committing; the engine then discards   *)
(* the uncommitted view.                                                   *)
(***************************************************************************)
EXTENDS Integers, Sequences, FiniteSets, TLC

(* ------------------------------ bounds --------------------------------- *)
NumIds  == 2    \* product ids are 1..NumIds
MaxLog  == 2    \* longest changelog of one product
MaxRank == 3    \* largest bestseller rank held by the primary store
MaxRuns == 2    \* runs of index_main in one behaviour

(* ------------------------------ values --------------------------------- *)
\* Python's None for an optional object, and a present object.
None == <<>>
Some(x) == <<x>>
\* SQL NULL in a TEXT column.
Null == "NULL"

ProductIds == 1..NumIds
Ranks == 1..MaxRank
Timestamps == {100, 200}

\* The category strings, listed in Python's str order (code point order).
CategoryOrder == <<"build", "download", "property", "unknown">>
Categories == {CategoryOrder[n] : n \in 1..Len(CategoryOrder)}

Title(id) == "title" \o ToString(id)

\* model.Product as index_product and index_changelog read it.
Product(id, rank) == [id |-> id, title |-> Title(id), rank_bestselling |-> rank]

Bonus(b) == [bonus_type |-> b]

\* model.ChangeRecord with its optional sub-records.
ChangeRecord(t, a, c, dl, pr) ==
    [timestamp |-> t, action |-> a, category |-> c,
     download_record |-> dl, property_record |-> pr]

DownloadRecord(new, old) ==
    [dl_type |-> "installer", dl_new_bonus |-> new, dl_old_bonus |-> old]

PropertyRecord == [property_name |-> "title"]

(* ------------------------------ state ---------------------------------- *)
VARIABLES
    db,           \* primary store: ids, product and changelog per id
    disk,         \* the index store file: exists, schema, committed tables
    tx,           \* the connection's open transaction and its uncommitted tables
    pc,           \* position of index_main
    run,          \* number of runs started
    ids,          \* index_main: ids
    need_create,  \* index_main: need_create
    i,            \* index_main: position of prod_id in ids
    prod,         \* index_main: prod
    changelog,    \* index_main: changelog
    k,            \* index_changelog: position of changerec in changelog
    summaries,    \* index_changelog: summaries, in insertion order
    stmt,         \* position in the statements of init_db and in the DELETEs
    err,          \* the exception that ended the run, "" when none
    counts,       \* the three counts printed at the end of the run
    committed,    \* END TRANSACTION of this run has committed
    pre,          \* committed tables when the run started
    prev,         \* committed tables at the end of the last successful run
    seen          \* what a concurrent reader last read during this run

vars == <<db, disk, tx, pc, run, ids, need_create, i, prod, changelog, k,
          summaries, stmt, err, counts, committed, pre, prev, seen>>

locals == <<ids, need_create, i, prod, changelog, k, summaries, stmt>>

\* The frame of index_main before it has assigned anything.
NoLocals ==
    /\ ids' = <<>>
    /\ need_create' = FALSE
    /\ i' = 1
    /\ prod' = None
    /\ changelog' = None
    /\ k' = 1
    /\ summaries' = <<>>
    /\ stmt' = 1

EmptyTables == [products |-> <<>>, changelog |-> <<>>, changelog_summary |-> <<>>]

TableNames == {"products", "changelog", "changelog_summary"}

\* The statements of init_db in order: the object each creates.
InitDbStatements ==
    <<"products", "changelog", "changelog_summary",
      "idx_products_sale_rank", "idx_changelog_timestamp", "idx_summary_timestamp">>

FullSchema == {InitDbStatements[n] : n \in 1..Len(InitDbStatements)}

NoTx == [active |-> FALSE, tables |-> EmptyTables]

\* The tables the connection's statements read and write.
Visible == IF tx.active THEN tx.tables ELSE disk.tables

\* Mutant of Execute: every statement is committed at once.
ExecuteCommitted(tables) ==
    /\ disk' = [disk EXCEPT !.tables = tables]
    /\ UNCHANGED tx

\* A statement that changes rows: inside BEGIN ... END it changes the
\* uncommitted view, outside it is committed at once (isolation_level=None).
Execute(tables) ==
    IF tx.active
    THEN /\ tx' = [tx EXCEPT !.tables = tables]
         /\ UNCHANGED disk
    ELSE /\ disk' = [disk EXCEPT !.tables = tables]
         /\ UNCHANGED tx

\* An exception leaves index_main: nothing commits, the open transaction is
\* lost with the connection, and so is the frame.
Raise(e) ==
    /\ pc' = "failed"
    /\ err' = e
    /\ tx' = NoTx
    /\ NoLocals
    /\ UNCHANGED <<db, disk, run, counts, committed, pre, prev, seen>>

(* --------------------------- pure functions ---------------------------- *)
\* Mutant of sale_rank: the bestseller rank is not inverted.
sale_rank_not_inverted(p, num_ids) ==
    IF p.rank_bestselling # None
    THEN p.rank_bestselling[1]
    ELSE 0

\* index_product, lines 54-57.
sale_rank(p, num_ids) ==
    IF p.rank_bestselling # None
    THEN num_ids - p.rank_bestselling[1] + 1
    ELSE 0

\* index_product, lines 58-69: the row inserted into products.  image_logo,
\* product_type, comp_systems and search_title are functions of the product
\* alone and are left out.
ProductRow(p, num_ids) ==
    [product_id |-> p.id, title |-> p.title, sale_rank |-> sale_rank(p, num_ids)]

\* index_changelog, lines 82-90: the attribute reads that raise AttributeError
\* when the sub-record of the category is None.
RaisesAttributeError(changerec) ==
    \/ changerec.category = "download" /\ changerec.download_record = None
    \/ changerec.category = "property" /\ changerec.property_record = None

\* index_changelog, lines 84-88: bonus_type, assigned from the new bonus and
\* then from the old bonus.
\* Mutant of bonus_type: the new bonus is read last and wins.
bonus_type_new_last(dl) ==
    LET fromOld == IF dl.dl_old_bonus # None THEN dl.dl_old_bonus[1].bonus_type ELSE Null
    IN  IF dl.dl_new_bonus # None THEN dl.dl_new_bonus[1].bonus_type ELSE fromOld

bonus_type(dl) ==
    LET fromNew == IF dl.dl_new_bonus # None THEN dl.dl_new_bonus[1].bonus_type ELSE Null
    IN  IF dl.dl_old_bonus # None THEN dl.dl_old_bonus[1].bonus_type ELSE fromNew

\* Mutant of IndexChange: property_name is set in an else branch, for every
\* category other than download.
IndexChangeElseBranch(p, changerec) ==
    [product_id    |-> p.id,
     product_title |-> p.title,
     timestamp     |-> changerec.timestamp,
     action        |-> changerec.action,
     category      |-> changerec.category,
     dl_type       |-> IF changerec.category = "download"
                       THEN changerec.download_record[1].dl_type ELSE Null,
     bonus_type    |-> IF changerec.category = "download"
                       THEN bonus_type(changerec.download_record[1]) ELSE Null,
     property_name |-> IF changerec.category # "download"
                       THEN (IF changerec.property_record # None
                             THEN changerec.property_record[1].property_name
                             ELSE changerec.category)
                       ELSE Null]

\* index_changelog, lines 74-107: the row inserted into changelog.  A
\* timestamp stands for its POSIX value, which timestamp.timestamp() returns.
\* serialized_record is a function of the record alone and is left out.
IndexChange(p, changerec) ==
    [product_id    |-> p.id,
     product_title |-> p.title,
     timestamp     |-> changerec.timestamp,
     action        |-> changerec.action,
     category      |-> changerec.category,
     dl_type       |-> IF changerec.category = "download"
                       THEN changerec.download_record[1].dl_type ELSE Null,
     bonus_type    |-> IF changerec.category = "download"
                       THEN bonus_type(changerec.download_record[1]) ELSE Null,
     property_name |-> IF changerec.category = "property"
                       THEN changerec.property_record[1].property_name ELSE Null]

\* Mutant of AddSummary: every record opens an entry of its own.
AddSummaryUngrouped(sm, t, c) ==
    Append(sm, [timestamp |-> t, categories |-> {c}])

\* index_changelog, line 109: summaries[changerec.timestamp].add(category).
\* A dict keeps its keys in insertion order.
AddSummary(sm, t, c) ==
    IF \E n \in 1..Len(sm) : sm[n].timestamp = t
    THEN [n \in 1..Len(sm) |->
            IF sm[n].timestamp = t
            THEN [sm[n] EXCEPT !.categories = @ \cup {c}]
            ELSE sm[n]]
    ELSE Append(sm, [timestamp |-> t, categories |-> {c}])

\* Position of a category string in Python's str order.
StrKey(c) == CHOOSE n \in 1..Len(CategoryOrder) : CategoryOrder[n] = c

\* sorted(category_set), line 112.
RECURSIVE sorted(_)
sorted(S) ==
    IF S = {} THEN <<>>
    ELSE LET least == CHOOSE c \in S : \A d \in S : StrKey(c) <= StrKey(d)
         IN  <<least>> \o sorted(S \ {least})

\* ",".join(seq), line 112.
RECURSIVE join(_)
join(seq) ==
    IF seq = <<>> THEN ""
    ELSE IF Len(seq) = 1 THEN seq[1]
    ELSE seq[1] \o "," \o join(Tail(seq))

\* index_changelog, lines 112-121: the row inserted into changelog_summary.
SummaryRow(p, entry) ==
    [product_id    |-> p.id,
     product_title |-> p.title,
     timestamp     |-> entry.timestamp,
     categories    |-> join(sorted(entry.categories))]

(* ------------------------------ actions -------------------------------- *)
\* Mutant of NeedCreate: the schema is created in every run.
NeedCreateAlways == TRUE

\* index_main, line 129: need_create = not changelog_index_path.exists().
NeedCreate == ~disk.exists

\* index_main, lines 123-129: a run starts, reads the id list and looks for
\* the index file.
index_main ==
    /\ pc \in {"idle", "done", "failed"}
    /\ run < MaxRuns
    /\ run' = run + 1
    /\ pc' = "connect"
    /\ ids' = db.ids
    /\ need_create' = NeedCreate
    /\ i' = 1 /\ prod' = None /\ changelog' = None /\ k' = 1
    /\ summaries' = <<>> /\ stmt' = 1
    /\ err' = ""
    /\ counts' = None
    /\ committed' = FALSE
    /\ pre' = disk.tables
    /\ seen' = None
    /\ UNCHANGED <<db, disk, tx, prev>>

\* index_main, lines 130-132: connecting creates the file when it is missing.
connect ==
    /\ pc = "connect"
    /\ disk' = [disk EXCEPT !.exists = TRUE]
    /\ pc' = IF need_create THEN "init_db" ELSE "begin"
    /\ UNCHANGED <<db, tx, run, locals, err, counts, committed, pre, prev, seen>>

\* init_db, lines 18-47: one CREATE statement, committed on its own.
\* Creating an object that exists raises sqlite3.OperationalError.
init_db ==
    /\ pc = "init_db"
    /\ IF InitDbStatements[stmt] \in disk.schema
       THEN Raise("OperationalError: already exists")
       ELSE /\ disk' = [disk EXCEPT !.schema = @ \cup {InitDbStatements[stmt]}]
            /\ IF stmt = Len(InitDbStatements)
               THEN pc' = "begin" /\ stmt' = 1
               ELSE pc' = "init_db" /\ stmt' = stmt + 1
            /\ UNCHANGED <<db, tx, run, ids, need_create, i, prod, changelog, k,
                           summaries, err, counts, committed, pre, prev, seen>>

\* Mutant of begin_transaction: no transaction is opened.
begin_transaction_not_opened ==
    /\ pc = "begin"
    /\ pc' = "delete"
    /\ UNCHANGED <<db, disk, tx, run, locals, err, counts, committed, pre, prev, seen>>

\* index_main, line 135: BEGIN TRANSACTION.
begin_transaction ==
    /\ pc = "begin"
    /\ tx' = [active |-> TRUE, tables |-> disk.tables]
    /\ pc' = "delete"
    /\ UNCHANGED <<db, disk, run, locals, err, counts, committed, pre, prev, seen>>

\* The tables in the order of the DELETE statements, lines 136-138.
DeleteStatements == <<"products", "changelog", "changelog_summary">>

\* Mutant of delete_from: the statements delete nothing.
delete_from_keeps_rows ==
    /\ pc = "delete"
    /\ IF DeleteStatements[stmt] \notin disk.schema
       THEN Raise("OperationalError: no such table")
       ELSE /\ Execute(Visible)
            /\ IF stmt = Len(DeleteStatements)
               THEN pc' = "for_prod_id" /\ stmt' = 1
               ELSE pc' = "delete" /\ stmt' = stmt + 1
            /\ UNCHANGED <<db, run, ids, need_create, i, prod, changelog, k,
                           summaries, err, counts, committed, pre, prev, seen>>

\* index_main, lines 136-138: one DELETE FROM statement.  A missing table
\* raises sqlite3.OperationalError.
delete_from ==
    /\ pc = "delete"
    /\ IF DeleteStatements[stmt] \notin disk.schema
       THEN Raise("OperationalError: no such table")
       ELSE /\ Execute([Visible EXCEPT ![DeleteStatements[stmt]] = <<>>])
            /\ IF stmt = Len(DeleteStatements)
               THEN pc' = "for_prod_id" /\ stmt' = 1
               ELSE pc' = "delete" /\ stmt' = stmt + 1
            /\ UNCHANGED <<db, run, ids, need_create, i, prod, changelog, k,
                           summaries, err, counts, committed, pre, prev, seen>>

\* Mutant of for_prod_id: an absent product ends the loop.
for_prod_id_break ==
    /\ pc = "for_prod_id"
    /\ IF i > Len(ids)
       THEN pc' = "end_transaction" /\ UNCHANGED <<i, prod>>
       ELSE /\ prod' = db.product[ids[i]]
            /\ IF db.product[ids[i]] = None
               THEN pc' = "end_transaction" /\ i' = i
               ELSE pc' = "index_product" /\ i' = i
    /\ UNCHANGED <<db, disk, tx, run, ids, need_create, changelog, k, summaries,
                   stmt, err, counts, committed, pre, prev, seen>>

\* index_main, lines 141-146: the loop takes the next id and loads its
\* product; an absent product is skipped; after the last id the loop ends.
for_prod_id ==
    /\ pc = "for_prod_id"
    /\ IF i > Len(ids)
       THEN pc' = "end_transaction" /\ UNCHANGED <<i, prod>>
       ELSE /\ prod' = db.product[ids[i]]
            /\ IF db.product[ids[i]] = None
               THEN pc' = "for_prod_id" /\ i' = i + 1
               ELSE pc' = "index_product" /\ i' = i
    /\ UNCHANGED <<db, disk, tx, run, ids, need_create, changelog, k, summaries,
                   stmt, err, counts, committed, pre, prev, seen>>

\* Mutant of num_ids: the ids with a product are counted.
num_products == Cardinality({n \in 1..Len(ids) : db.product[ids[n]] # None})

\* index_main, line 140: num_ids = len(ids).
\* Mutant of num_ids: the position of the id in the id list.
num_ids_position == i

num_ids == Len(ids)

\* index_main, line 147, and index_product, lines 53-69.
index_product ==
    /\ pc = "index_product"
    /\ Execute([Visible EXCEPT !.products = Append(@, ProductRow(prod[1], num_ids))])
    /\ pc' = "load_changelog"
    /\ UNCHANGED <<db, run, locals, err, counts, committed, pre, prev, seen>>

\* Mutant of load_changelog: an absent changelog ends the loop.
load_changelog_break ==
    /\ pc = "load_changelog"
    /\ changelog' = db.changelog[ids[i]]
    /\ summaries' = <<>>
    /\ k' = 1
    /\ IF db.changelog[ids[i]] = None
       THEN pc' = "end_transaction" /\ i' = i
       ELSE IF db.changelog[ids[i]] = Some(<<>>)
       THEN pc' = "for_prod_id" /\ i' = i + 1
       ELSE pc' = "for_changerec" /\ i' = i
    /\ UNCHANGED <<db, disk, tx, run, ids, need_create, prod, stmt, err, counts,
                   committed, pre, prev, seen>>

\* Mutant of load_changelog: summaries is kept from the product before.
load_changelog_keeps_summaries ==
    /\ pc = "load_changelog"
    /\ changelog' = db.changelog[ids[i]]
    /\ summaries' = summaries
    /\ k' = 1
    /\ IF db.changelog[ids[i]] = None \/ db.changelog[ids[i]] = Some(<<>>)
       THEN pc' = "for_prod_id" /\ i' = i + 1
       ELSE pc' = "for_changerec" /\ i' = i
    /\ UNCHANGED <<db, disk, tx, run, ids, need_create, prod, stmt, err, counts,
                   committed, pre, prev, seen>>

\* index_main, lines 149-153: load the changelog; without one the loop goes
\* on to the next id; line 72: index_changelog starts with empty summaries.
load_changelog ==
    /\ pc = "load_changelog"
    /\ changelog' = db.changelog[ids[i]]
    /\ summaries' = <<>>
    /\ k' = 1
    /\ IF db.changelog[ids[i]] = None \/ db.changelog[ids[i]] = Some(<<>>)
       THEN pc' = "for_prod_id" /\ i' = i + 1
       ELSE pc' = "for_changerec" /\ i' = i
    /\ UNCHANGED <<db, disk, tx, run, ids, need_create, prod, stmt, err, counts,
                   committed, pre, prev, seen>>

\* Mutant of for_changerec: the summary row of a timestamp is inserted with
\* the first record of that timestamp.
for_changerec_flushes ==
    /\ pc = "for_changerec"
    /\ LET changerec == changelog[1][k]
           first == \A n \in 1..Len(summaries) : summaries[n].timestamp # changerec.timestamp
           entry == [timestamp |-> changerec.timestamp, categories |-> {changerec.category}]
       IN  IF RaisesAttributeError(changerec)
           THEN Raise("AttributeError")
           ELSE /\ Execute([Visible EXCEPT
                               !.changelog = Append(@, IndexChange(prod[1], changerec)),
                               !.changelog_summary =
                                   IF first THEN Append(@, SummaryRow(prod[1], entry)) ELSE @])
                /\ summaries' = AddSummary(summaries, changerec.timestamp,
                                           changerec.category)
                /\ IF k = Len(changelog[1])
                   THEN pc' = "for_prod_id" /\ k' = 1 /\ i' = i + 1
                   ELSE pc' = "for_changerec" /\ k' = k + 1 /\ i' = i
                /\ UNCHANGED <<db, run, ids, need_create, prod, changelog, stmt,
                               err, counts, committed, pre, prev, seen>>

\* index_changelog, lines 73-109: one change record.
for_changerec ==
    /\ pc = "for_changerec"
    /\ LET changerec == changelog[1][k]
       IN  IF RaisesAttributeError(changerec)
           THEN Raise("AttributeError")
           ELSE /\ Execute([Visible EXCEPT
                               !.changelog = Append(@, IndexChange(prod[1], changerec))])
                /\ summaries' = AddSummary(summaries, changerec.timestamp,
                                           changerec.category)
                /\ IF k = Len(changelog[1])
                   THEN pc' = "for_summary" /\ k' = 1
                   ELSE pc' = "for_changerec" /\ k' = k + 1
                /\ UNCHANGED <<db, run, ids, need_create, i, prod, changelog, stmt,
                               err, counts, committed, pre, prev, seen>>

\* Mutant of for_summary: only the first entry of summaries is inserted.
for_summary_first_only ==
    /\ pc = "for_summary"
    /\ Execute([Visible EXCEPT
                   !.changelog_summary = Append(@, SummaryRow(prod[1], summaries[k]))])
    /\ pc' = "for_prod_id" /\ i' = i + 1 /\ k' = 1
    /\ UNCHANGED <<db, run, ids, need_create, prod, changelog, summaries, stmt,
                   err, counts, committed, pre, prev, seen>>

\* Mutant of for_summary: the rows of a product are committed once its
\* summaries are written, and a new transaction is opened for the next id.
for_summary_commits ==
    /\ pc = "for_summary"
    /\ LET tables == [Visible EXCEPT
                        !.changelog_summary = Append(@, SummaryRow(prod[1], summaries[k]))]
       IN  IF k = Len(summaries)
           THEN /\ disk' = [disk EXCEPT !.tables = tables]
                /\ tx' = [active |-> TRUE, tables |-> tables]
                /\ pc' = "for_prod_id" /\ i' = i + 1 /\ k' = 1
           ELSE /\ Execute(tables)
                /\ pc' = "for_summary" /\ i' = i /\ k' = k + 1
    /\ UNCHANGED <<db, run, ids, need_create, prod, changelog, summaries, stmt,
                   err, counts, committed, pre, prev, seen>>

\* index_changelog, lines 111-121: one summary row; after the last one
\* index_changelog returns and the loop of index_main goes on.
for_summary ==
    /\ pc = "for_summary"
    /\ Execute([Visible EXCEPT
                   !.changelog_summary = Append(@, SummaryRow(prod[1], summaries[k]))])
    /\ IF k = Len(summaries)
       THEN pc' = "for_prod_id" /\ i' = i + 1 /\ k' = 1
       ELSE pc' = "for_summary" /\ i' = i /\ k' = k + 1
    /\ UNCHANGED <<db, run, ids, need_create, prod, changelog, summaries, stmt,
                   err, counts, committed, pre, prev, seen>>

\* index_main, line 155: END TRANSACTION commits the uncommitted tables.
\* Without an open transaction it raises sqlite3.OperationalError.
end_transaction ==
    /\ pc = "end_transaction"
    /\ IF ~tx.active
       THEN Raise("OperationalError: no transaction is active")
       ELSE /\ disk' = [disk EXCEPT !.tables = tx.tables]
            /\ tx' = NoTx
            /\ committed' = TRUE
            /\ pc' = "count_rows"
            /\ UNCHANGED <<db, run, locals, err, counts, pre, prev, seen>>

\* Mutant of count_rows: the second count is taken from changelog_summary.
count_rows_wrong_table ==
    /\ pc = "count_rows"
    /\ counts' = Some(<<Len(Visible.products), Len(Visible.changelog_summary),
                        Len(Visible.changelog_summary)>>)
    /\ pc' = "close"
    /\ UNCHANGED <<db, disk, tx, run, locals, err, committed, pre, prev, seen>>

\* count_rows, lines 49-51, called three times at lines 157-161.
count_rows ==
    /\ pc = "count_rows"
    /\ counts' = Some(<<Len(Visible.products), Len(Visible.changelog),
                        Len(Visible.changelog_summary)>>)
    /\ pc' = "close"
    /\ UNCHANGED <<db, disk, tx, run, locals, err, committed, pre, prev, seen>>

\* index_main, lines 163-165: close the cursor, commit (nothing is open),
\* close the connection; the run has succeeded.
close ==
    /\ pc = "close"
    /\ pc' = "done"
    /\ tx' = NoTx
    /\ prev' = Some(disk.tables)
    /\ NoLocals
    /\ UNCHANGED <<db, disk, run, err, counts, committed, pre, seen>>

\* A store, loader or engine error at the statement index_main is about to
\* execute (any await of lines 124-165).
StoreIOError ==
    /\ pc \notin {"idle", "done", "failed"}
    /\ Raise("StoreIOError")

\* Another connection reads the three tables while the run is in progress or
\* after it: it reads what is committed.
Reader ==
    /\ pc # "idle"
    /\ disk.exists
    /\ TableNames \subseteq disk.schema
    /\ seen' = Some(disk.tables)
    /\ UNCHANGED <<db, disk, tx, pc, run, locals, err, counts, committed, pre, prev>>

Next ==
    \/ index_main
    \/ connect
    \/ init_db
    \/ begin_transaction
    \/ delete_from
    \/ for_prod_id
    \/ index_product
    \/ load_changelog
    \/ for_changerec
    \/ for_summary
    \/ end_transaction
    \/ count_rows
    \/ close
    \/ StoreIOError
    \/ Reader

(* --------------------------- initial states ---------------------------- *)
\* Change records of every shape index_changelog distinguishes.
ActionOf(c) == IF c = "build" THEN "add" ELSE IF c = "unknown" THEN "remove" ELSE "change"

OptionalBonus == {None, Some(Bonus("manual")), Some(Bonus("wallpaper"))}

DownloadChanges(t) ==
    {ChangeRecord(t, ActionOf("download"), "download", Some(DownloadRecord(new, old)), None) :
        new \in {None, Some(Bonus("manual"))}, old \in OptionalBonus}
    \cup {ChangeRecord(t, ActionOf("download"), "download", None, None)}

PropertyChanges(t) ==
    {ChangeRecord(t, ActionOf("property"), "property", None, pr) :
        pr \in {None, Some(PropertyRecord)}}

OtherChanges(t) ==
    {ChangeRecord(t, ActionOf(c), c, None, None) : c \in {"build", "unknown"}}

AllChanges == UNION {DownloadChanges(t) \cup PropertyChanges(t) \cup OtherChanges(t) :
                        t \in Timestamps}

\* A well-formed change record of a category at a timestamp.
Change(t, c) ==
    ChangeRecord(t, ActionOf(c), c,
                 IF c = "download" THEN Some(DownloadRecord(None, None)) ELSE None,
                 IF c = "property" THEN Some(PropertyRecord) ELSE None)

PlainChanges == {Change(t, c) : t \in Timestamps, c \in {"build", "download", "property"}}

SeqsUpTo(S, n) == UNION {[1..m -> S] : m \in 0..n}

\* The id lists: every list of distinct product ids, in any order (the
\* primary store keeps a set of ids).
IdLists == {l \in SeqsUpTo(ProductIds, NumIds) :
               \A a, b \in 1..Len(l) : a # b => l[a] # l[b]}

InList(l, id) == \E n \in 1..Len(l) : l[n] = id

Store(l, products, changelogs) == [ids |-> l, product |-> products, changelog |-> changelogs]

SampleLog == <<Change(100, "download"), Change(100, "property")>>

\* The product of every id: absent, or present with one of the ranks; an id
\* outside the id list has no product.
ProductsOf(l, ranks) ==
    {f \in [ProductIds -> {None} \cup {Some(Product(id, r)) : id \in ProductIds, r \in ranks}] :
        \A id \in ProductIds : f[id] # None => f[id][1].id = id /\ InList(l, id)}

\* The changelog of every id: absent, or one of the logs; an id outside the
\* id list has no changelog.
ChangelogsOf(l, logs) ==
    {f \in [ProductIds -> {None} \cup {Some(log) : log \in logs}] :
        \A id \in ProductIds : f[id] # None => InList(l, id)}

\* Every listed id has a changelog without records.
EmptyLogs(l) == [id \in ProductIds |-> IF InList(l, id) THEN Some(<<>>) ELSE None]

\* Stores that differ in which products and changelogs exist.
PresenceStoresOf(l) ==
    {Store(l, p, c) : p \in ProductsOf(l, {None}),
                      c \in ChangelogsOf(l, {SampleLog}) \cup {EmptyLogs(l)}}

PresenceStores == UNION {PresenceStoresOf(l) : l \in IdLists}

\* Stores that differ in the bestseller ranks.
RankStoresOf(l) ==
    {Store(l, p, [id \in ProductIds |-> None]) :
        p \in ProductsOf(l, {None} \cup {Some(x) : x \in Ranks})}

RankStores == UNION {RankStoresOf(l) : l \in {m \in IdLists : \A n \in 1..Len(m) : m[n] = n}
                                            \cup {<<2, 1>>}}

\* Stores that differ in the shape of one change record.
RecordStores ==
    {Store(<<1>>,
           [id \in ProductIds |-> IF id = 1 THEN Some(Product(1, None)) ELSE None],
           [id \in ProductIds |-> IF id = 1 THEN Some(log) ELSE None]) :
        log \in {<<r>> : r \in AllChanges} \cup
                {<<Change(100, "build"), r>> : r \in AllChanges}}

\* Stores that differ in the timestamps and categories of a changelog.
GroupingStores ==
    {Store(l,
           [id \in ProductIds |-> IF id <= 2 THEN Some(Product(id, None)) ELSE None],
           [id \in ProductIds |-> IF id = 1 THEN Some(log)
                                  ELSE IF id = 2 THEN other ELSE None]) :
        l \in {<<1, 2>>, <<2, 1>>},
        log \in SeqsUpTo(PlainChanges, MaxLog) \ {<<>>},
        other \in {Some(<<Change(200, "build")>>)}}

\* The index store before the first run: no file, or the committed result of
\* an earlier rebuild over a primary store that held other products.
NoFile == [exists |-> FALSE, schema |-> {}, tables |-> EmptyTables]

StaleTables ==
    [products |-> <<[product_id |-> 0, title |-> "old", sale_rank |-> 1]>>,
     changelog |-> <<[product_id |-> 0, product_title |-> "old", timestamp |-> 100,
                      action |-> "add", category |-> "build", dl_type |-> Null,
                      bonus_type |-> Null, property_name |-> Null]>>,
     changelog_summary |-> <<[product_id |-> 0, product_title |-> "old",
                              timestamp |-> 100, categories |-> "build"]>>]

StaleFile == [exists |-> TRUE, schema |-> FullSchema, tables |-> StaleTables]

InitWith(stores, disks) ==
    /\ db \in stores
    /\ disk \in disks
    /\ tx = NoTx
    /\ pc = "idle"
    /\ run = 0
    /\ ids = <<>>
    /\ need_create = FALSE
    /\ i = 1
    /\ prod = None
    /\ changelog = None
    /\ k = 1
    /\ summaries = <<>>
    /\ stmt = 1
    /\ err = ""
    /\ counts = None
    /\ committed = FALSE
    /\ pre = disk.tables
    /\ prev = None
    /\ seen = None

Init ==
    \/ InitWith(PresenceStores \cup RecordStores, {NoFile, StaleFile})
    \/ InitWith(RankStores \cup GroupingStores, {NoFile})

Spec == Init /\ [][Next]_vars

(* ------------------------- notions of the claims ----------------------- *)
Committed == disk.tables

\* The ids of the id list.
Listed == {db.ids[n] : n \in 1..Len(db.ids)}

\* Ids of the id list with a product, and those with a product and a changelog.
Indexed == {id \in Listed : db.product[id] # None}
Logged == {id \in Indexed : db.changelog[id] # None}

LogOf(id) == db.changelog[id][1]

TimestampsOf(log) == {log[n].timestamp : n \in 1..Len(log)}

CategoriesAt(log, t) == {log[n].category : n \in {m \in 1..Len(log) : log[m].timestamp = t}}

\* The positions of the rows of a product in a table.
RowsOf(table, id) == {n \in 1..Len(table) : table[n].product_id = id}

RowIds(table) == {table[n].product_id : n \in 1..Len(table)}

\* Tables that hold the rows of one whole rebuild, and no others: one
\* products row per indexed id, one changelog row per change record and one
\* summary row per timestamp of every logged id.
Complete(tables) ==
    /\ RowIds(tables.products) \subseteq Indexed
    /\ RowIds(tables.changelog) \subseteq Logged
    /\ RowIds(tables.changelog_summary) \subseteq Logged
    /\ \A id \in Indexed : Cardinality(RowsOf(tables.products, id)) = 1
    /\ \A id \in Logged :
          /\ Cardinality(RowsOf(tables.changelog, id)) = Len(LogOf(id))
          /\ Cardinality(RowsOf(tables.changelog_summary, id))
                = Cardinality(TimestampsOf(LogOf(id)))

\* The number of times a row occurs in a table.
Occurrences(table, row) == Cardinality({n \in 1..Len(table) : table[n] = row})

SameRows(a, b) ==
    \A row \in {a[n] : n \in 1..Len(a)} \cup {b[n] : n \in 1..Len(b)} :
        Occurrences(a, row) = Occurrences(b, row)

SameTables(a, b) ==
    /\ SameRows(a.products, b.products)
    /\ SameRows(a.changelog, b.changelog)
    /\ SameRows(a.changelog_summary, b.changelog_summary)

(* ------------------------------- claims -------------------------------- *)
\* C1: until END TRANSACTION has committed, whatever the run has done or
\* failed at, the persisted tables are the pre-rebuild tables; once it has
\* committed they are the rows of one whole rebuild.  The persisted store is
\* never emptied and never a mixture.
C1_PersistedPreOrRebuilt ==
    /\ ~committed => Committed = pre
    /\ committed => Complete(Committed)

\* C1 witness: a run over a store with rows failed inside index_changelog,
\* after the DELETEs and some INSERTs and before the commit.
C1_FailedAfterDeletes ==
    /\ pc = "failed"
    /\ err = "AttributeError"
    /\ ~committed
    /\ pre = StaleTables
    /\ Committed = StaleTables

\* C2: whatever a concurrent reader reads during a run is either the
\* pre-rebuild tables or, after the commit, the rows of one whole rebuild.
C2_ReaderSeesPreOrRebuilt ==
    seen # None => \/ seen[1] = pre
                   \/ committed /\ Complete(seen[1])

\* C2 witness: a reader has read the pre-rebuild rows while the transaction
\* is open, the old rows are deleted and new rows are partly inserted.
C2_ReadDuringRebuild ==
    /\ seen # None
    /\ tx.active
    /\ pc = "for_summary"
    /\ pre = StaleTables
    /\ seen[1] = StaleTables
    /\ tx.tables.products # <<>>
    /\ tx.tables.changelog_summary = <<>>

\* C3: after a successful rebuild no table holds a row of a listed id whose
\* product is absent, with or without a changelog of that id, and every
\* listed id with a product has its products row.
C3_AbsentProductSkipped ==
    pc = "done" =>
        /\ \A id \in Listed \ Indexed :
              /\ RowsOf(Committed.products, id) = {}
              /\ RowsOf(Committed.changelog, id) = {}
              /\ RowsOf(Committed.changelog_summary, id) = {}
        /\ \A id \in Indexed : RowsOf(Committed.products, id) # {}

\* C3 witness: a successful rebuild whose id list has an id with a changelog
\* and no product, followed by an id with a product.
C3_SkippedThenIndexed ==
    /\ pc = "done"
    /\ \E a, b \in 1..Len(db.ids) :
          /\ a < b
          /\ db.product[db.ids[a]] = None
          /\ db.changelog[db.ids[a]] = Some(SampleLog)
          /\ RowsOf(Committed.products, db.ids[b]) # {}

\* C4: after a successful rebuild a listed id with a product and no changelog
\* has its products row and no changelog or summary row, and every other id
\* has all its rows.
C4_AbsentChangelogSkipped ==
    pc = "done" =>
        /\ \A id \in Indexed \ Logged :
              /\ Cardinality(RowsOf(Committed.products, id)) = 1
              /\ RowsOf(Committed.changelog, id) = {}
              /\ RowsOf(Committed.changelog_summary, id) = {}
        /\ \A id \in Logged :
              /\ Cardinality(RowsOf(Committed.products, id)) = 1
              /\ Cardinality(RowsOf(Committed.changelog, id)) = Len(LogOf(id))

\* C4 witness: a successful rebuild whose id list has an id with a product
\* and no changelog, followed by an id with a product and change records.
C4_NoChangelogThenLogged ==
    /\ pc = "done"
    /\ \E a, b \in 1..Len(db.ids) :
          /\ a < b
          /\ db.ids[a] \in Indexed \ Logged
          /\ db.ids[b] \in Logged
          /\ RowsOf(Committed.changelog, db.ids[b]) # {}

\* The categories of a set as the claim writes them: the category strings in
\* ascending order, with a comma between two of them.
RECURSIVE CommaList(_, _)
CommaList(S, n) ==
    IF n > Len(CategoryOrder) THEN ""
    ELSE LET rest == CommaList(S, n + 1)
         IN  IF CategoryOrder[n] \notin S THEN rest
             ELSE IF rest = "" THEN CategoryOrder[n]
             ELSE CategoryOrder[n] \o "," \o rest

\* C5: after a successful rebuild changelog_summary holds, for every logged
\* id, exactly one row per timestamp of its change records and none for
\* another timestamp, and the row's categories are the sorted, comma-joined
\* distinct categories of the records of that id at that timestamp; download
\* and property at one timestamp give "download,property".
C5_SummaryPerTimestamp ==
    pc = "done" =>
        \A id \in Logged :
            LET rows == RowsOf(Committed.changelog_summary, id)
                log == LogOf(id)
            IN  /\ \A n \in rows : Committed.changelog_summary[n].timestamp \in TimestampsOf(log)
                /\ \A t \in TimestampsOf(log) :
                      /\ Cardinality({n \in rows : Committed.changelog_summary[n].timestamp = t}) = 1
                      /\ \A n \in rows :
                            Committed.changelog_summary[n].timestamp = t =>
                                /\ Committed.changelog_summary[n].categories
                                      = CommaList(CategoriesAt(log, t), 1)
                                /\ CategoriesAt(log, t) = {"download", "property"} =>
                                      Committed.changelog_summary[n].categories
                                         = "download,property"

\* C5 witness: a successful rebuild of a product whose changelog has a
\* property record followed by a download record at the same timestamp.
C5_TwoCategoriesOneTimestamp ==
    /\ pc = "done"
    /\ \E id \in Logged :
          /\ LogOf(id) = <<Change(100, "property"), Change(100, "download")>>
          /\ \E n \in RowsOf(Committed.changelog_summary, id) :
                Committed.changelog_summary[n].categories = "download,property"

\* C6: a successful rebuild leaves no row of an id that is not indexed now,
\* so no pre-rebuild row of another product survives, and its tables hold
\* the same rows as the tables of the successful rebuild before it.
C6_RebuildIdempotent ==
    committed =>
        /\ RowIds(Committed.products) \subseteq Indexed
        /\ RowIds(Committed.changelog) \subseteq Logged
        /\ RowIds(Committed.changelog_summary) \subseteq Logged
        /\ prev # None => SameTables(Committed, prev[1])

\* C6 witness: a second rebuild has committed its rows over the rows the
\* successful rebuild before it left.
C6_SecondRebuild ==
    /\ pc = "count_rows"
    /\ committed
    /\ run = 2
    /\ prev # None
    /\ pre = prev[1]
    /\ Committed.changelog_summary # <<>>

\* The bestseller rank of the product of a products row.
RankOf(row) == db.product[row.product_id][1].rank_bestselling

\* The products rows this run has written: those of the open transaction
\* once the DELETEs are through, those committed after END TRANSACTION.
WrittenProducts ==
    IF tx.active /\ pc # "delete" THEN tx.tables.products
    ELSE IF committed THEN Committed.products
    ELSE <<>>

\* C7: every products row a run writes has sale_rank 0 when its product has
\* no bestseller rank and otherwise N - rank + 1, N the length of the id
\* list, absent products counted; rank 1 gets N.
C7_SaleRankFormula ==
    \A n \in 1..Len(WrittenProducts) :
        LET row == WrittenProducts[n]
        IN  /\ RankOf(row) = None => row.sale_rank = 0
            /\ RankOf(row) # None =>
                  row.sale_rank = Len(db.ids) - RankOf(row)[1] + 1
            /\ RankOf(row) = Some(1) => row.sale_rank = Len(db.ids)

\* C7 witness: a committed products row of a product of rank 1 in an id list
\* that also holds an id without product.
C7_RankOneGetsN ==
    /\ committed
    /\ Listed # Indexed
    /\ \E n \in 1..Len(Committed.products) :
          /\ RankOf(Committed.products[n]) = Some(1)
          /\ Committed.products[n].sale_rank = Len(db.ids)

\* C8: in the products table of a successful rebuild, of two ranked products
\* the one with the smaller bestseller rank has the strictly larger
\* sale_rank, and a product of rank 1 has the largest sale_rank of the table.
C8_SaleRankMonotonic ==
    committed =>
        \A n, m \in 1..Len(Committed.products) :
            LET a == Committed.products[n]
                b == Committed.products[m]
            IN  /\ (RankOf(a) # None /\ RankOf(b) # None /\ RankOf(a)[1] < RankOf(b)[1])
                      => a.sale_rank > b.sale_rank
                /\ RankOf(a) = Some(1) => a.sale_rank >= b.sale_rank

\* C8 witness: a committed products table with a product of rank 1 and a
\* product of a larger rank.
C8_TwoRankedProducts ==
    /\ committed
    /\ \E n, m \in 1..Len(Committed.products) :
          /\ RankOf(Committed.products[n]) = Some(1)
          /\ RankOf(Committed.products[m]) # None
          /\ RankOf(Committed.products[m])[1] > 1
          /\ Committed.products[n].sale_rank > Committed.products[m].sale_rank

\* C9: no change record, whatever its category and whether or not the
\* sub-record of its category is there, makes the rebuild raise: the run is
\* never ended by the AttributeError of reading a field of a missing
\* download_record or property_record.
C9_MalformedRecordNeverAborts ==
    err # "AttributeError"

\* C10: a CREATE statement of init_db executes only in a run that found no
\* index file, against a schema that holds exactly what the earlier
\* statements of this run created, never after a rebuild has succeeded, and
\* it never raises because the object exists.
C10_SchemaCreatedOnce ==
    /\ pc = "init_db" =>
          /\ need_create
          /\ prev = None
          /\ disk.schema = {InitDbStatements[n] : n \in 1..(stmt - 1)}
    /\ err # "OperationalError: already exists"

\* C10 witness: the run after a run that created the schema and succeeded
\* has gone past the schema step without creating anything.
C10_LaterRunSkipsInitDb ==
    /\ run = 2
    /\ prev # None
    /\ pc = "begin"
    /\ ~need_create
    /\ pre # StaleTables
    /\ disk.schema = FullSchema

\* The sum of f over a finite set of ids, f a function on the ids.
RECURSIVE SumOver(_, _)
SumOver(S, f) ==
    IF S = {} THEN 0
    ELSE LET id == CHOOSE x \in S : TRUE
         IN  f[id] + SumOver(S \ {id}, f)

\* C11: the three counts a run reports are the number of listed ids with a
\* product, the number of change records of the listed ids with a product
\* and a changelog, and the number of distinct (id, timestamp) pairs among
\* those records.
C11_ReportedCounts ==
    counts # None =>
        /\ counts[1][1] = Cardinality(Indexed)
        /\ counts[1][2] = SumOver(Logged, [id \in Logged |-> Len(LogOf(id))])
        /\ counts[1][3] = Cardinality({<<id, t>> \in Logged \X Timestamps :
                                          t \in TimestampsOf(LogOf(id))})

\* C11 witness: a run has reported fewer products than listed ids and fewer
\* summaries than changelog entries.
C11_CountsReported ==
    /\ counts # None
    /\ pc = "close"
    /\ counts[1][1] > 0
    /\ counts[1][1] < Len(db.ids)
    /\ counts[1][3] > 0
    /\ counts[1][3] < counts[1][2]

\* The positions at which index_main executes a DELETE or an INSERT.
WritePositions == {"delete", "index_product", "for_changerec", "for_summary"}

\* C12: every DELETE and INSERT executes inside the open transaction, a
\* transaction is opened only by BEGIN TRANSACTION and ended only by END
\* TRANSACTION or by the run failing, and the committed tables change only
\* when END TRANSACTION commits: nothing is committed between the first
\* DELETE and the last INSERT.
C12_OneTransaction ==
    [][/\ pc \in WritePositions => tx.active
       /\ (tx'.active /\ ~tx.active) => pc = "begin"
       /\ (~tx'.active /\ tx.active) => (pc = "end_transaction" \/ pc' = "failed")
       /\ disk'.tables # disk.tables => (pc = "end_transaction" /\ tx.active)]_vars

\* C12 witness: all rows of a rebuild are inserted in the open transaction
\* and the committed tables are still the pre-rebuild ones.
C12_AllInsertedNothingCommitted ==
    /\ pc = "end_transaction"
    /\ tx.active
    /\ tx.tables.changelog_summary # <<>>
    /\ tx.tables.products # <<>>
    /\ disk.tables = StaleTables

\* The uncommitted tables once the DELETEs are through.
Rebuilding == tx.active /\ pc # "delete"

\* C13 as stated: while the rebuild is under way a changelog_summary row is
\* there only when every listed id has been processed, that is when every
\* indexed id has its products row and every logged id all its changelog rows.
C13_SummariesAfterAllIds ==
    (Rebuilding /\ tx.tables.changelog_summary # <<>>) =>
        /\ \A id \in Indexed : RowsOf(tx.tables.products, id) # {}
        /\ \A id \in Logged :
              Cardinality(RowsOf(tx.tables.changelog, id)) = Len(LogOf(id))

\* C13 amended: the rows are inserted after the DELETEs; the summary rows of
\* a product are inserted after the products row and all changelog rows of
\* that product, none of them while its change records are being inserted,
\* and before the next id is loaded; the commit follows the last of them.
C13_SummariesAfterOwnRecords ==
    /\ Rebuilding =>
          /\ RowIds(tx.tables.products) \subseteq Listed
          /\ \A id \in RowIds(tx.tables.changelog_summary) :
                /\ RowsOf(tx.tables.products, id) # {}
                /\ Cardinality(RowsOf(tx.tables.changelog, id)) = Len(LogOf(id))
          /\ pc = "for_changerec" => RowsOf(tx.tables.changelog_summary, ids[i]) = {}
          /\ pc \in {"for_prod_id", "end_transaction"} =>
                \A id \in RowIds(tx.tables.changelog) :
                    Cardinality(RowsOf(tx.tables.changelog_summary, id))
                       = Cardinality(TimestampsOf(LogOf(id)))
    /\ committed =>
          \A id \in Logged :
              Cardinality(RowsOf(Committed.changelog_summary, id))
                 = Cardinality(TimestampsOf(LogOf(id)))

\* C13 witness: the summary rows of one product are inserted and the next
\* id, which has a product and change records, is still to be loaded.
C13_SummariesBeforeNextId ==
    /\ Rebuilding
    /\ pc = "for_prod_id"
    /\ i <= Len(ids)
    /\ ids[i] \in Logged
    /\ LogOf(ids[i]) # <<>>
    /\ RowsOf(tx.tables.products, ids[i]) = {}
    /\ tx.tables.changelog_summary # <<>>

\* The tables this run has written: those of the open transaction once the
\* DELETEs are through, those committed after END TRANSACTION.
Written ==
    IF Rebuilding THEN tx.tables
    ELSE IF committed THEN Committed
    ELSE EmptyTables

\* The rows of a product in a table, in the order of the table.
RowSeq(table, id) == SelectSeq(table, LAMBDA row : row.product_id = id)

\* C14: the n-th changelog row written for a product carries the product's
\* id and title and the timestamp, action and category of the product's n-th
\* change record; dl_type is the download record's dl_type for category
\* download and null otherwise, property_name is the property record's name
\* for category property and null otherwise, and bonus_type is null for
\* every category other than download.
C14_ChangelogRowFields ==
    \A id \in Logged :
        \A n \in 1..Len(RowSeq(Written.changelog, id)) :
            LET row == RowSeq(Written.changelog, id)[n]
                rec == LogOf(id)[n]
            IN  /\ row.product_id = db.product[id][1].id
                /\ row.product_title = db.product[id][1].title
                /\ row.timestamp = rec.timestamp
                /\ row.action = rec.action
                /\ row.category = rec.category
                /\ rec.category = "download" =>
                      /\ row.dl_type = rec.download_record[1].dl_type
                      /\ row.property_name = Null
                /\ rec.category = "property" =>
                      /\ row.property_name = rec.property_record[1].property_name
                      /\ row.dl_type = Null
                      /\ row.bonus_type = Null
                /\ rec.category \notin {"download", "property"} =>
                      /\ row.dl_type = Null
                      /\ row.bonus_type = Null
                      /\ row.property_name = Null

\* C14 witness: committed changelog rows of a record of another category,
\* with the three fields null, and of a property record, with its name.
C14_RowsOfTwoCategories ==
    /\ committed
    /\ \E n, m \in 1..Len(Committed.changelog) :
          /\ Committed.changelog[n].category = "build"
          /\ Committed.changelog[n].property_name = Null
          /\ Committed.changelog[m].category = "property"
          /\ Committed.changelog[m].property_name = "title"
          /\ Committed.changelog[m].action = "change"

\* C15: the changelog row written for a download record stores the type of
\* the old bonus whenever the old bonus is present, also when the new bonus is
\* present with another type; the type of the new bonus when only the new
\* bonus is present; and null when neither is present.
C15_OldBonusWins ==
    \A id \in Logged :
        \A n \in 1..Len(RowSeq(Written.changelog, id)) :
            LET row == RowSeq(Written.changelog, id)[n]
                rec == LogOf(id)[n]
                dl  == rec.download_record[1]
            IN  rec.category = "download" =>
                    /\ dl.dl_old_bonus # None =>
                          row.bonus_type = dl.dl_old_bonus[1].bonus_type
                    /\ (dl.dl_old_bonus = None /\ dl.dl_new_bonus # None) =>
                          row.bonus_type = dl.dl_new_bonus[1].bonus_type
                    /\ (dl.dl_old_bonus = None /\ dl.dl_new_bonus = None) =>
                          row.bonus_type = Null

\* C15 witness: a committed row of a download record whose new and old bonus
\* have different types, stored with the type of the old one.
C15_BothBonusesDiffer ==
    /\ committed
    /\ \E id \in Logged :
          \E n \in 1..Len(RowSeq(Committed.changelog, id)) :
              LET dl == LogOf(id)[n].download_record
              IN  /\ LogOf(id)[n].category = "download"
                  /\ dl # None
                  /\ dl[1].dl_new_bonus = Some(Bonus("manual"))
                  /\ dl[1].dl_old_bonus = Some(Bonus("wallpaper"))
                  /\ RowSeq(Committed.changelog, id)[n].bonus_type = "wallpaper"

\* The comma lists of the non-empty subsets of a set of categories.
CommaLists(S) == {CommaList(T, 1) : T \in (SUBSET S) \ {{}}}

\* C16: summaries holds records of the product in hand only.  While a
\* changelog is indexed every entry of summaries has a timestamp of that
\* changelog and categories of its records at that timestamp; every summary
\* row written for a product has a timestamp of the product's own changelog
\* and lists only categories of the product's own records at that timestamp.
C16_SummariesPerProduct ==
    /\ pc \in {"for_changerec", "for_summary"} =>
          \A n \in 1..Len(summaries) :
              /\ summaries[n].timestamp \in TimestampsOf(changelog[1])
              /\ summaries[n].categories
                    \subseteq CategoriesAt(changelog[1], summaries[n].timestamp)
    /\ \A n \in 1..Len(Written.changelog_summary) :
          LET row == Written.changelog_summary[n]
          IN  /\ row.product_id \in Logged
              /\ row.timestamp \in TimestampsOf(LogOf(row.product_id))
              /\ row.categories
                    \in CommaLists(CategoriesAt(LogOf(row.product_id), row.timestamp))

\* C16 witness: a finished rebuild of two products, the first with a
\* timestamp the second does not have and, at the timestamp they share, a
\* category the second does not have; the second product's summary is written.
C16_TwoProductsShareTimestamp ==
    /\ pc = "done"
    /\ committed
    /\ \E a, b \in Logged :
          /\ a # b
          /\ \E n, m \in 1..Len(db.ids) : n < m /\ db.ids[n] = a /\ db.ids[m] = b
          /\ TimestampsOf(LogOf(a)) \ TimestampsOf(LogOf(b)) # {}
          /\ \E t \in TimestampsOf(LogOf(a)) \cap TimestampsOf(LogOf(b)) :
                CategoriesAt(LogOf(a), t) \ CategoriesAt(LogOf(b), t) # {}
          /\ RowsOf(Committed.changelog_summary, b) # {}

\* The rows a rebuild of the primary store is to hold, stated without the
\* order of the id list: Listed, Indexed and Logged are sets of ids.
ExpectedProducts ==
    {ProductRow(db.product[id][1], Cardinality(Listed)) : id \in Indexed}

ExpectedChanges(row) ==
    {<<id, n>> \in Logged \X (1..MaxLog) :
        /\ n <= Len(LogOf(id))
        /\ IndexChange(db.product[id][1], LogOf(id)[n]) = row}

ExpectedSummaries ==
    {SummaryRow(db.product[id][1],
                [timestamp |-> t, categories |-> CategoriesAt(LogOf(id), t)]) :
        <<id, t>> \in {<<a, b>> \in Logged \X Timestamps : b \in TimestampsOf(LogOf(a))}}

RowSet(table) == {table[n] : n \in 1..Len(table)}

\* C17: the row multisets of a successful rebuild are those fixed by the set
\* of listed ids and the primary store's contents, whatever the order of the
\* id list: products holds each expected row once, changelog holds every row
\* as often as change records yield it, changelog_summary holds each expected
\* row once.
C17_OrderOfIdsIrrelevant ==
    committed =>
        /\ RowSet(Committed.products) = ExpectedProducts
        /\ Len(Committed.products) = Cardinality(ExpectedProducts)
        /\ \A row \in RowSet(Committed.changelog) :
              Occurrences(Committed.changelog, row) = Cardinality(ExpectedChanges(row))
        /\ Len(Committed.changelog) = SumOver(Logged, [id \in Logged |-> Len(LogOf(id))])
        /\ RowSet(Committed.changelog_summary) = ExpectedSummaries
        /\ Len(Committed.changelog_summary) = Cardinality(ExpectedSummaries)

\* C17 witness: a successful rebuild over an id list in descending order,
\* with changelog and summary rows of both products.
C17_DescendingIdList ==
    /\ committed
    /\ db.ids = <<2, 1>>
    /\ RowsOf(Committed.changelog, 1) # {}
    /\ RowsOf(Committed.changelog, 2) # {}
    /\ Committed.changelog_summary[1].product_id = 2
    /\ Len(Committed.changelog_summary) > 1

\* The (product_id, timestamp) pairs of the rows of a table.
Pairs(table) == {<<table[n].product_id, table[n].timestamp>> : n \in 1..Len(table)}

C19_DeleteFindsFullSchema ==
    pc = "delete" => disk.schema = FullSchema

\* C20: after a successful rebuild every products row of a product with a
\* bestseller rank has a sale_rank above 0, and so above the sale_rank of
\* every row of a product without one, whatever the rank is, ranks above the
\* length of the id list included.
C20_RankedAboveUnranked ==
    committed =>
        \A n \in 1..Len(Committed.products) :
            RankOf(Committed.products[n]) # None =>
                /\ Committed.products[n].sale_rank > 0
                /\ \A m \in 1..Len(Committed.products) :
                      RankOf(Committed.products[m]) = None =>
                          Committed.products[n].sale_rank > Committed.products[m].sale_rank

====
